---- MODULE Spec2Model ----
(***************************************************************************)
(* Model of src/server.py: the Iconify host-fallback requester             *)
(* (_request_iconify), the parameter normalisers (_clamp_limit,            *)
(* _split_icon) and the five tool handlers built on them.                  *)
(*                                                                         *)
(* Python values are tagged with their type, strings are sequences of      *)
(* one-character strings, dicts are functions from key to value.  Each     *)
(* invocation of a handler is an asyncio task: it runs without             *)
(* interruption up to the next await, and the only await is client.get     *)
(* (line 45), so one step of a task is "handler entry up to the first      *)
(* GET" or "a response arrives, up to the next GET or the return".         *)
(***************************************************************************)
EXTENDS Integers, Sequences, FiniteSets, TLC

\* ---------------------------------------------------------------- bounds
\* Number of handler invocations that may be in flight together.
NumTasks == 2
\* Longest icon reference drawn as input (characters).
MaxIconLen == 3
\* Longest search query drawn as input (characters).
MaxQueryLen == 2

Tasks == 1..NumTasks

\* ------------------------------------------------------- Python values
PyNone == [type |-> "NoneType"]
PyStr(s) == [type |-> "str", val |-> s]
PyInt(n) == [type |-> "int", val |-> n]
PyBool(b) == [type |-> "bool", val |-> b]
PyList(l) == [type |-> "list", val |-> l]
PyDict(d) == [type |-> "dict", val |-> d]
\* {} : the dict with no key
EmptyDict == [k \in {} |-> PyNone]
\* d[k] = v on a dict
DictSet(d, k, v) == [x \in (DOMAIN d) \cup {k} |-> IF x = k THEN v ELSE d[x]]
\* An exception object of the class `kind`.
PyExc(kind) == [type |-> "exception", kind |-> kind]
\* Marks a local variable that has no value yet (the frame does not exist).
Unset == [type |-> "unset"]

\* Python truth value testing (`if x:`, `not x`, `x or y`).
Truthy(v) ==
    CASE v.type = "NoneType" -> FALSE
      [] v.type = "bool" -> v.val
      [] v.type = "int" -> v.val # 0
      [] v.type = "str" -> Len(v.val) > 0
      [] v.type = "list" -> Len(v.val) > 0
      [] v.type = "dict" -> DOMAIN v.val # {}

\* `a or b`
PyOr(a, b) == IF Truthy(a) THEN a ELSE b

\* `"icons" in data`: a key of a dict, an element of a list, a substring of a
\* str (any other type of the values modelled here is never tested).
HasIcons(data) ==
    CASE data.type = "dict" -> "icons" \in DOMAIN data.val
      [] data.type = "list" ->
            \E k \in 1..Len(data.val) : data.val[k] = PyStr(<<"i", "c", "o", "n", "s">>)
      [] data.type = "str" ->
            \E k \in 0..(Len(data.val) - 5) :
                SubSeq(data.val, k + 1, k + 5) = <<"i", "c", "o", "n", "s">>

\* ------------------------------------------------------ string literals
MSG_FORMAT ==
    <<"I", "c", "o", "n", " ", "m", "u", "s", "t", " ", "b", "e", " ", "i", "n", " ", "'", "p", "r", "e", "f", "i", "x", ":", "n", "a", "m", "e", "'", " ", "f", "o", "r", "m", "a", "t", ",", " ", "e", ".", "g", ".", ",", " ", "'", "m", "d", "i", ":", "h", "o", "m", "e", "'">>
MSG_INVALID ==
    <<"I", "n", "v", "a", "l", "i", "d", " ", "i", "c", "o", "n", ",", " ", "e", "x", "p", "e", "c", "t", "e", "d", " ", "'", "p", "r", "e", "f", "i", "x", ":", "n", "a", "m", "e", "'">>
MSG_SEARCH ==
    <<"U", "n", "a", "b", "l", "e", " ", "t", "o", " ", "f", "e", "t", "c", "h", " ", "s", "e", "a", "r", "c", "h", " ", "r", "e", "s", "u", "l", "t", "s", " ", "o", "r", " ", "n", "o", " ", "r", "e", "s", "u", "l", "t", "s", " ", "f", "o", "u", "n", "d", ".">>
MSG_SVG ==
    <<"U", "n", "a", "b", "l", "e", " ", "t", "o", " ", "f", "e", "t", "c", "h", " ", "S", "V", "G", ".">>
MSG_ICON_DATA ==
    <<"U", "n", "a", "b", "l", "e", " ", "t", "o", " ", "f", "e", "t", "c", "h", " ", "i", "c", "o", "n", " ", "d", "a", "t", "a", ".">>
MSG_COLLECTIONS ==
    <<"U", "n", "a", "b", "l", "e", " ", "t", "o", " ", "f", "e", "t", "c", "h", " ", "c", "o", "l", "l", "e", "c", "t", "i", "o", "n", "s", ".">>
MSG_COLLECTION_PRE ==
    <<"U", "n", "a", "b", "l", "e", " ", "t", "o", " ", "f", "e", "t", "c", "h", " ", "i", "c", "o", "n", "s", " ", "f", "o", "r", " ", "c", "o", "l", "l", "e", "c", "t", "i", "o", "n", " ", "'">>
MSG_COLLECTION_POST ==
    <<"'", ".">>
KW_STYLE ==
    <<" ", "s", "t", "y", "l", "e", "=">>
KW_PALETTE ==
    <<" ", "p", "a", "l", "e", "t", "t", "e", "=">>
S_true ==
    <<"t", "r", "u", "e">>
S_false ==
    <<"f", "a", "l", "s", "e">>
S_fill ==
    <<"f", "i", "l", "l">>
S_stroke ==
    <<"s", "t", "r", "o", "k", "e">>
S_outline ==
    <<"o", "u", "t", "l", "i", "n", "e">>
PATH_SEARCH ==
    <<"/", "s", "e", "a", "r", "c", "h">>
PATH_COLLECTIONS ==
    <<"/", "c", "o", "l", "l", "e", "c", "t", "i", "o", "n", "s">>
PATH_COLLECTION ==
    <<"/", "c", "o", "l", "l", "e", "c", "t", "i", "o", "n">>
EXT_SVG ==
    <<".", "s", "v", "g">>
EXT_JSON ==
    <<".", "j", "s", "o", "n">>
B_null ==
    <<"n", "u", "l", "l">>
B_empty_obj ==
    <<"{", "}">>
B_html ==
    <<"<", "h", "t", "m", "l", ">">>
B_svg ==
    <<"<", "s", "v", "g", "/", ">">>
B_icons_empty ==
    <<"{", "\"", "i", "c", "o", "n", "s", "\"", ":", "[", "]", "}">>
B_icons_one ==
    <<"{", "\"", "i", "c", "o", "n", "s", "\"", ":", "[", "\"", "m", "d", "i", ":", "h", "o", "m", "e", "\"", "]", ",", "\"", "t", "o", "t", "a", "l", "\"", ":", "1", "}">>
B_total_only ==
    <<"{", "\"", "t", "o", "t", "a", "l", "\"", ":", "0", "}">>
S_mdi_home ==
    <<"m", "d", "i", ":", "h", "o", "m", "e">>
S_mdi ==
    <<"m", "d", "i">>
S_tabler ==
    <<"t", "a", "b", "l", "e", "r">>
S_24 ==
    <<"2", "4">>
S_horizontal ==
    <<"h", "o", "r", "i", "z", "o", "n", "t", "a", "l">>
S_general ==
    <<"G", "e", "n", "e", "r", "a", "l">>
S_red ==
    <<"r", "e", "d">>
S_hash_f00 ==
    <<"#", "f", "0", "0">>
S_1 ==
    <<"1">>
S_comma ==
    <<",">>
S_pct23 ==
    <<"%", "2", "3">>

\* ------------------------------------------------------ program constants
\* Iconify /search: min=32, default=64, max=999 (comment at line 55)
LIMIT_DEFAULT == 64
LIMIT_MIN == 32
LIMIT_MAX == 999

USER_AGENT == "icon-mcp/1.0"

\* The values of the module globals ICONIFY_BASE and ICONIFY_BACKUPS at import.
BASE_URL == "https://api.iconify.design"
BACKUP_URLS == <<"https://api.simplesvg.com", "https://api.unisvg.com">>

\* ------------------------------------------------------- str operations
\* `c in s` for a one-character c
StrContains(s, c) == \E k \in 1..Len(s) : s[k] = c

RECURSIVE IndexOf(_, _, _)
\* Position of the first c in s at or after k; 0 when there is none.
IndexOf(s, c, k) ==
    IF k > Len(s) THEN 0
    ELSE IF s[k] = c THEN k
    ELSE IndexOf(s, c, k + 1)

\* s.split(c, 1) when c is in s: the text before the first c and the text after it.
SplitOnce(s, c) ==
    LET k == IndexOf(s, c, 1)
    IN  <<SubSeq(s, 1, k - 1), SubSeq(s, k + 1, Len(s))>>

IsSpace(c) == c \in {" ", "\t", "\n"}

RECURSIVE LStrip(_)
LStrip(s) == IF s # <<>> /\ IsSpace(Head(s)) THEN LStrip(Tail(s)) ELSE s

RECURSIVE RStrip(_)
RStrip(s) ==
    IF s # <<>> /\ IsSpace(s[Len(s)]) THEN RStrip(SubSeq(s, 1, Len(s) - 1)) ELSE s

\* s.strip()
Strip(s) == RStrip(LStrip(s))

RECURSIVE Replace(_, _, _)
\* s.replace(c, r) for a one-character c
Replace(s, c, r) ==
    IF s = <<>> THEN <<>>
    ELSE (IF Head(s) = c THEN r ELSE <<Head(s)>>) \o Replace(Tail(s), c, r)

RECURSIVE Join(_, _)
\* sep.join(l) for a list l of str values
Join(sep, l) ==
    IF l = <<>> THEN <<>>
    ELSE IF Len(l) = 1 THEN l[1].val
    ELSE l[1].val \o sep \o Join(sep, Tail(l))

Max(a, b) == IF a >= b THEN a ELSE b
Min(a, b) == IF a <= b THEN a ELSE b

\* ------------------------------------------------- parameter normalisers
\* Variant: the lower bound is forgotten, `min(999, n)`.
_clamp_limit_no_floor(n) ==
    IF n = PyNone THEN PyInt(LIMIT_DEFAULT)
    ELSE PyInt(Min(LIMIT_MAX, n.val))

\* def _clamp_limit(n)
_clamp_limit(n) ==
    IF n = PyNone THEN PyInt(LIMIT_DEFAULT)
    ELSE PyInt(Max(LIMIT_MIN, Min(LIMIT_MAX, n.val)))

\* Variant: only the prefix is tested for emptiness, `if not prefix:`.
_split_icon_prefix_only(icon) ==
    IF ~StrContains(icon, ":")
    THEN [raised |-> TRUE, msg |-> MSG_FORMAT]
    ELSE LET parts == SplitOnce(icon, ":")
         IN  IF parts[1] = <<>>
             THEN [raised |-> TRUE, msg |-> MSG_INVALID]
             ELSE [raised |-> FALSE, prefix |-> parts[1], name |-> parts[2]]

\* def _split_icon(icon): the pair, or the ValueError it raises
_split_icon(icon) ==
    IF ~StrContains(icon, ":")
    THEN [raised |-> TRUE, msg |-> MSG_FORMAT]
    ELSE LET parts == SplitOnce(icon, ":")
         IN  IF parts[1] = <<>> \/ parts[2] = <<>>
             THEN [raised |-> TRUE, msg |-> MSG_INVALID]
             ELSE [raised |-> FALSE, prefix |-> parts[1], name |-> parts[2]]

\* --------------------------------------------------------- the upstream
\* resp.json(): the parsed body, or the decode error it raises.  The bodies an
\* upstream host answers with are drawn from JsonBodies and TextBodies below.
Json(body) ==
    CASE body = B_null -> [ok |-> TRUE, value |-> PyNone]
      [] body = B_empty_obj -> [ok |-> TRUE, value |-> PyDict(EmptyDict)]
      [] body = B_icons_empty ->
            [ok |-> TRUE, value |-> PyDict([icons |-> PyList(<<>>)])]
      [] body = B_icons_one ->
            [ok |-> TRUE,
             value |-> PyDict([icons |-> PyList(<<PyStr(S_mdi_home)>>), total |-> PyInt(1)])]
      [] body = B_total_only -> [ok |-> TRUE, value |-> PyDict([total |-> PyInt(0)])]
      [] OTHER -> [ok |-> FALSE]

\* Bodies of a 2xx answer to a request that expects JSON: JSON null, objects
\* (empty, with and without the icons key), and a body that is not JSON.
JsonBodies(wide) ==
    IF wide
    THEN {B_null, B_empty_obj, B_icons_empty, B_icons_one, B_total_only, B_html}
    ELSE {B_icons_one, B_empty_obj}

\* Bodies of a 2xx answer to a request for SVG text.
TextBodies(wide) == {<<>>, B_svg}

\* What one GET can end in: a transport error (connection, timeout) or an HTTP
\* response with a status and a body.
Responses(expect_json, wide) ==
    LET bodies == IF expect_json THEN JsonBodies(wide) ELSE TextBodies(wide)
    IN  (IF wide
         THEN {[kind |-> "ConnectError"], [kind |-> "ReadTimeout"],
               [kind |-> "http", status |-> 404, body |-> <<>>]}
         ELSE {[kind |-> "ConnectError"]})
        \cup {[kind |-> "http", status |-> 200, body |-> b] : b \in bodies}

\* resp.raise_for_status() passes
IsSuccess(status) == status >= 200 /\ status <= 299

\* Variant: `except httpx.HTTPError`, which a JSON decode error is not.
CaughtHTTPErrorOnly(exc) == exc \in {"ConnectError", "ReadTimeout", "HTTPStatusError"}

\* `except Exception` (line 48): every error of the try body is an Exception.
Caught(exc) == exc \in {"ConnectError", "ReadTimeout", "HTTPStatusError", "JSONDecodeError"}

\* Variant: `return resp.text` whatever is expected.
ResponseValueAlwaysText(r, expect_json) == [ok |-> TRUE, value |-> PyStr(r.body)]

\* `resp.json() if expect_json else resp.text`: the value, or the error raised.
ResponseValue(r, expect_json) ==
    IF expect_json
    THEN (IF Json(r.body).ok
          THEN [ok |-> TRUE, value |-> Json(r.body).value]
          ELSE [ok |-> FALSE, exc |-> "JSONDecodeError"])
    ELSE [ok |-> TRUE, value |-> PyStr(r.body)]

\* The try body of one loop iteration (lines 45-47) on the answer r.
TryHost(r, expect_json) ==
    IF r.kind # "http" THEN [ok |-> FALSE, exc |-> r.kind]
    ELSE IF ~IsSuccess(r.status) THEN [ok |-> FALSE, exc |-> "HTTPStatusError"]
    ELSE ResponseValue(r, expect_json)

\* _headers (lines 31-36); no handler passes extra headers.
RequestHeaders(expect_json) ==
    ("User-Agent" :> USER_AGENT)
    @@ ("Accept" :> IF expect_json THEN "application/json" ELSE "image/svg+xml")

\* Variant: `hosts = [*ICONIFY_BACKUPS, ICONIFY_BASE]`.
HostListBackupsFirst(base, backups) == backups \o <<base>>

\* hosts = [ICONIFY_BASE, *ICONIFY_BACKUPS]
HostList(base, backups) == <<base>> \o backups

\* ------------------------------------------------- handlers: pure parts
\* Variant: `f" palette={palette}"`, Python's own rendering of a bool.
query_kw_str_bool(a) ==
    LET q0 == Strip(a.query.val)
        q1 == IF a.style \in {PyStr(S_fill), PyStr(S_stroke)}
              THEN q0 \o KW_STYLE \o a.style.val
              ELSE q0
    IN  IF a.palette # PyNone
        THEN q1 \o KW_PALETTE \o (IF Truthy(a.palette) THEN <<"T", "r", "u", "e">>
                                                        ELSE <<"F", "a", "l", "s", "e">>)
        ELSE q1

\* search_icons, lines 94-98: the text sent as the `query` parameter.
query_kw(a) ==
    LET q0 == Strip(a.query.val)
        q1 == IF a.style \in {PyStr(S_fill), PyStr(S_stroke)}
              THEN q0 \o KW_STYLE \o a.style.val
              ELSE q0
    IN  IF a.palette # PyNone
        THEN q1 \o KW_PALETTE \o (IF Truthy(a.palette) THEN S_true ELSE S_false)
        ELSE q1

\* search_icons, lines 100-110: the query parameters.
search_params(a) ==
    LET p0 == [query |-> PyStr(query_kw(a)),
               limit |-> _clamp_limit(a.limit),
               start |-> PyInt(Max(0, a.start.val))]
        p1 == IF Truthy(a.prefix) THEN DictSet(p0, "prefix", a.prefix) ELSE p0
        p2 == IF Truthy(a.prefixes)
              THEN DictSet(p1, "prefixes", PyStr(Join(S_comma, a.prefixes.val)))
              ELSE p1
    IN  IF Truthy(a.category) THEN DictSet(p2, "category", a.category) ELSE p2

\* Variant: `if not data or not data.get("icons")`, an empty list counts as failure.
search_icons_return_nonempty(data) ==
    IF ~Truthy(data) \/ ~HasIcons(data) \/ ~Truthy(data.val["icons"])
    THEN PyStr(MSG_SEARCH)
    ELSE data

\* search_icons, lines 113-115: the value returned for the requester's result.
search_icons_return(data) ==
    IF ~Truthy(data) \/ ~HasIcons(data)
    THEN PyStr(MSG_SEARCH)
    ELSE data

\* get_svg, lines 134-148: the query parameters.
svg_params(a) ==
    LET p0 == EmptyDict
        p1 == IF Truthy(a.color)
              THEN DictSet(p0, "color", PyStr(Replace(a.color.val, "#", S_pct23)))
              ELSE p0
        p2 == IF Truthy(a.width) THEN DictSet(p1, "width", a.width) ELSE p1
        p3 == IF Truthy(a.height) THEN DictSet(p2, "height", a.height) ELSE p2
        p4 == IF Truthy(a.rotate) THEN DictSet(p3, "rotate", a.rotate) ELSE p3
        p5 == IF Truthy(a.flip) THEN DictSet(p4, "flip", a.flip) ELSE p4
        p6 == IF Truthy(a.box) THEN DictSet(p5, "box", PyInt(1)) ELSE p5
    IN  IF Truthy(a.download) THEN DictSet(p6, "download", PyInt(1)) ELSE p6

\* f"/{prefix}/{name}.svg"
svg_path(prefix, name) == <<"/">> \o prefix \o <<"/">> \o name \o EXT_SVG

\* get_svg, line 151
get_svg_return(svg) == PyOr(svg, PyStr(MSG_SVG))

\* f"/{prefix}.json"
icon_data_path(prefix) == <<"/">> \o prefix \o EXT_JSON

\* Variant: `data if data is not None else "Unable to fetch icon data."`.
get_icon_data_return_is_none(data) == IF data = PyNone THEN PyStr(MSG_ICON_DATA) ELSE data

\* get_icon_data, line 163
get_icon_data_return(data) == PyOr(data, PyStr(MSG_ICON_DATA))

\* list_collections, lines 171-175: the query parameters.
collections_params(a) ==
    LET p0 == EmptyDict
        p1 == IF Truthy(a.prefix) THEN DictSet(p0, "prefix", a.prefix) ELSE p0
    IN  IF Truthy(a.prefixes)
        THEN DictSet(p1, "prefixes", PyStr(Join(S_comma, a.prefixes.val)))
        ELSE p1

\* list_collections, line 178
list_collections_return(data) == PyOr(data, PyStr(MSG_COLLECTIONS))

\* list_icons_in_collection, lines 193-197: the query parameters.
collection_params(a) ==
    LET p0 == [prefix |-> a.prefix]
        p1 == IF Truthy(a.include_info) THEN DictSet(p0, "info", PyStr(S_1)) ELSE p0
    IN  IF Truthy(a.include_chars) THEN DictSet(p1, "chars", PyStr(S_1)) ELSE p1

\* list_icons_in_collection, line 200
list_icons_in_collection_return(a, data) ==
    PyOr(data, PyStr(MSG_COLLECTION_PRE \o a.prefix.val \o MSG_COLLECTION_POST))

\* What the handler `o`, called with `a`, returns for the requester's result.
HandlerReturn(o, a, data) ==
    CASE o = "search_icons" -> search_icons_return(data)
      [] o = "get_svg" -> get_svg_return(data)
      [] o = "get_icon_data" -> get_icon_data_return(data)
      [] o = "list_collections" -> list_collections_return(data)
      [] o = "list_icons_in_collection" -> list_icons_in_collection_return(a, data)

\* --------------------------------------------- one invocation on its own
RECURSIVE RequestAlone(_, _, _)
\* _request_iconify run to its end without any other task: the loop of lines
\* 42-52 from host k on, where answers[j] is what host j answers.  It returns the
\* number of hosts asked and the value returned, or raises.  (An answer that is
\* missing is one the upstream was never asked for.)
RequestAlone(answers, expect_json, k) ==
    IF k > Len(HostList(BASE_URL, BACKUP_URLS))
    THEN [asked |-> k - 1, raised |-> FALSE, value |-> PyNone]
    ELSE IF k > Len(answers)
    THEN [asked |-> k, raised |-> FALSE, value |-> Unset]
    ELSE LET res == TryHost(answers[k], expect_json)
         IN  IF res.ok THEN [asked |-> k, raised |-> FALSE, value |-> res.value]
             ELSE IF ~Caught(res.exc) THEN [asked |-> k, raised |-> TRUE, value |-> Unset]
             ELSE RequestAlone(answers, expect_json, k + 1)

\* The handler `o` called with `a` and run to its end without any other task.
HandlerAlone(o, a, answers) ==
    LET expect_json == o # "get_svg"
        early == o \in {"get_svg", "get_icon_data"} /\ _split_icon(a.icon.val).raised
        r == RequestAlone(answers, expect_json, 1)
    IN  IF early
        THEN [asked |-> 0, raised |-> FALSE, value |-> PyStr(_split_icon(a.icon.val).msg)]
        ELSE IF r.raised \/ r.value = Unset THEN r
        ELSE [asked |-> r.asked, raised |-> FALSE, value |-> HandlerReturn(o, a, r.value)]

\* ------------------------------------------------------- handler inputs
SeqsUpTo(S, n) == UNION {[1..k -> S] : k \in 0..n}

\* Icon references: every string over {m, :} up to MaxIconLen, and "mdi:home".
IconRefs(wide) ==
    IF wide
    THEN SeqsUpTo({"m", ":"}, MaxIconLen) \cup {S_mdi_home}
    ELSE {<<"m", ":", "m">>, <<"m", "m">>}

SearchDefaults ==
    [query |-> PyStr(<<"h">>), limit |-> PyInt(64), start |-> PyInt(0),
     prefix |-> PyNone, prefixes |-> PyNone, category |-> PyNone,
     style |-> PyNone, palette |-> PyNone]

\* Arguments of search_icons: the pagination arguments varied together, the
\* query, style and palette varied together, the filters varied together.
SearchArgs(wide) ==
    IF wide
    THEN {[SearchDefaults EXCEPT !.limit = l, !.start = PyInt(s)] :
             l \in {PyNone} \cup {PyInt(n) : n \in {-1, 10, 31, 32, 33, 64, 998, 999, 1000, 5000}},
             s \in {-5, -1, 0, 1, 10}}
         \cup
         {[SearchDefaults EXCEPT !.query = PyStr(q), !.style = st, !.palette = p] :
             q \in SeqsUpTo({"h", " "}, MaxQueryLen) \cup {<<"h", "o", "m", "e">>},
             st \in {PyNone, PyStr(S_fill), PyStr(S_stroke), PyStr(S_outline), PyStr(<<>>)},
             p \in {PyNone, PyBool(TRUE), PyBool(FALSE)}}
         \cup
         {[SearchDefaults EXCEPT !.prefix = f[1], !.prefixes = f[2], !.category = f[3],
                                 !.limit = PyInt(10), !.style = PyStr(S_stroke)] :
             f \in {PyNone, PyStr(<<>>), PyStr(S_mdi)}
                   \X {PyNone, PyList(<<>>), PyList(<<PyStr(S_mdi), PyStr(S_tabler)>>)}
                   \X {PyNone, PyStr(S_general)}}
    ELSE {SearchDefaults}

SvgDefaults ==
    [icon |-> PyStr(<<>>), color |-> PyNone, width |-> PyNone, height |-> PyNone,
     rotate |-> PyNone, flip |-> PyNone, box |-> PyBool(FALSE), download |-> PyBool(FALSE)]

SvgOptions(wide) ==
    IF wide
    THEN {SvgDefaults,
          [SvgDefaults EXCEPT !.color = PyStr(S_hash_f00)],
          [SvgDefaults EXCEPT !.color = PyStr(S_red), !.width = PyStr(S_24),
                              !.height = PyStr(S_24)],
          [SvgDefaults EXCEPT !.rotate = PyStr(S_1), !.flip = PyStr(S_horizontal),
                              !.box = PyBool(TRUE), !.download = PyBool(TRUE)]}
    ELSE {SvgDefaults}

SvgArgs(wide) == {[o EXCEPT !.icon = PyStr(s)] : o \in SvgOptions(wide), s \in IconRefs(wide)}

IconDataArgs(wide) == {[icon |-> PyStr(s)] : s \in IconRefs(wide)}

CollectionsArgs(wide) ==
    IF wide
    THEN {[prefix |-> p, prefixes |-> ps] :
             p \in {PyNone, PyStr(<<>>), PyStr(S_mdi)},
             ps \in {PyNone, PyList(<<>>), PyList(<<PyStr(S_mdi), PyStr(S_tabler)>>)}}
    ELSE {[prefix |-> PyNone, prefixes |-> PyNone]}

CollectionArgs(wide) ==
    IF wide
    THEN {[prefix |-> PyStr(p), include_info |-> PyBool(i), include_chars |-> PyBool(c)] :
             p \in {S_mdi, <<>>}, i \in BOOLEAN, c \in BOOLEAN}
    ELSE {[prefix |-> PyStr(S_mdi), include_info |-> PyBool(FALSE),
           include_chars |-> PyBool(FALSE)]}

\* ---------------------------------------------------------------- state
VARIABLES
    ICONIFY_BASE,     \* module global: the primary host
    ICONIFY_BACKUPS,  \* module global: the list of backup hosts
    pc,               \* per task: "idle", "awaiting" (a GET is in flight), "done", "raised"
    op,               \* per task: the handler invoked
    args,             \* per task: the arguments it was invoked with
    req,              \* per task: path, params, expect_json, headers of its request
    hosts,            \* per task: the local list `hosts` of _request_iconify
    attempts,         \* per task: the GETs issued so far, in order, with their outcome
    last_exc,         \* per task: the local `last_exc`
    data,             \* per task: what _request_iconify returned
    out               \* per task: what the handler returned

vars == <<ICONIFY_BASE, ICONIFY_BACKUPS, pc, op, args, req, hosts, attempts,
          last_exc, data, out>>

globals == <<ICONIFY_BASE, ICONIFY_BACKUPS>>

Init ==
    /\ ICONIFY_BASE = BASE_URL
    /\ ICONIFY_BACKUPS = BACKUP_URLS
    /\ pc = [t \in Tasks |-> "idle"]
    /\ op = [t \in Tasks |-> "none"]
    /\ args = [t \in Tasks |-> Unset]
    /\ req = [t \in Tasks |-> Unset]
    /\ hosts = [t \in Tasks |-> <<>>]
    /\ attempts = [t \in Tasks |-> <<>>]
    /\ last_exc = [t \in Tasks |-> PyNone]
    /\ data = [t \in Tasks |-> Unset]
    /\ out = [t \in Tasks |-> Unset]

\* client.get(url, ...) is issued: url = f"{host}{path}" (lines 43, 45).
Get(host, path) == [host |-> host, path |-> path, result |-> "pending", resp |-> Unset]

\* The handler `o` is entered with `a` and calls _request_iconify, which runs up
\* to its first await: headers, hosts, the client, and the GET on hosts[0]
\* (lines 31-45).
CallRequester(t, o, a, path, params, expect_json) ==
    LET hs == HostList(ICONIFY_BASE, ICONIFY_BACKUPS)
    IN  /\ pc' = [pc EXCEPT ![t] = "awaiting"]
        /\ op' = [op EXCEPT ![t] = o]
        /\ args' = [args EXCEPT ![t] = a]
        /\ req' = [req EXCEPT ![t] = [path |-> path, params |-> params,
                                      expect_json |-> expect_json,
                                      headers |-> RequestHeaders(expect_json)]]
        /\ hosts' = [hosts EXCEPT ![t] = hs]
        /\ attempts' = [attempts EXCEPT ![t] = <<Get(hs[1], path)>>]
        /\ last_exc' = [last_exc EXCEPT ![t] = PyNone]
        /\ data' = [data EXCEPT ![t] = Unset]
        /\ out' = [out EXCEPT ![t] = Unset]
        /\ UNCHANGED globals

\* The handler `o` returns `value` without calling the requester.
ReturnEarly(t, o, a, value) ==
    /\ pc' = [pc EXCEPT ![t] = "done"]
    /\ op' = [op EXCEPT ![t] = o]
    /\ args' = [args EXCEPT ![t] = a]
    /\ out' = [out EXCEPT ![t] = value]
    /\ UNCHANGED <<globals, req, hosts, attempts, last_exc, data>>

\* @mcp.tool() search_icons
search_icons(t, wide) ==
    /\ pc[t] = "idle"
    /\ \E a \in SearchArgs(wide) :
          CallRequester(t, "search_icons", a, PATH_SEARCH, search_params(a), TRUE)

\* @mcp.tool() get_svg
get_svg(t, wide) ==
    /\ pc[t] = "idle"
    /\ \E a \in SvgArgs(wide) :
          LET s == _split_icon(a.icon.val)
          IN  IF s.raised
              THEN ReturnEarly(t, "get_svg", a, PyStr(s.msg))
              ELSE CallRequester(t, "get_svg", a, svg_path(s.prefix, s.name),
                                 svg_params(a), FALSE)

\* @mcp.tool() get_icon_data
get_icon_data(t, wide) ==
    /\ pc[t] = "idle"
    /\ \E a \in IconDataArgs(wide) :
          LET s == _split_icon(a.icon.val)
          IN  IF s.raised
              THEN ReturnEarly(t, "get_icon_data", a, PyStr(s.msg))
              ELSE CallRequester(t, "get_icon_data", a, icon_data_path(s.prefix),
                                 [icons |-> PyStr(s.name)], TRUE)

\* @mcp.tool() list_collections
list_collections(t, wide) ==
    /\ pc[t] = "idle"
    /\ \E a \in CollectionsArgs(wide) :
          CallRequester(t, "list_collections", a, PATH_COLLECTIONS,
                        collections_params(a), TRUE)

\* @mcp.tool() list_icons_in_collection
list_icons_in_collection(t, wide) ==
    /\ pc[t] = "idle"
    /\ \E a \in CollectionArgs(wide) :
          CallRequester(t, "list_icons_in_collection", a, PATH_COLLECTION,
                        collection_params(a), TRUE)

\* The answer r to the GET in flight, and whether the try body got through it
\* ("ok") or raised ("failed"), are recorded in the log of attempts.
Settle(log, result, r) ==
    [log EXCEPT ![Len(log)] = [@ EXCEPT !.result = result, !.resp = r]]

\* _request_iconify returns `value` (line 47 or line 52) and the handler, which
\* awaits nothing else, returns what it makes of it.
RequesterReturns(t, value) ==
    /\ pc' = [pc EXCEPT ![t] = "done"]
    /\ data' = [data EXCEPT ![t] = value]
    /\ out' = [out EXCEPT ![t] = HandlerReturn(op[t], args[t], value)]

\* Line 47: the GET on the current host succeeded.
OnSuccess(t, r, value) ==
    /\ attempts' = [attempts EXCEPT ![t] = Settle(@, "ok", r)]
    /\ RequesterReturns(t, value)
    /\ UNCHANGED <<globals, op, args, req, hosts, last_exc>>

\* Variant: a module-level host list that remembers failures: the host that
\* failed is moved behind the others for the invocations to come.
OnFailureDemoteHost(t, r, exc) ==
    LET k == Len(attempts[t])
        log == Settle(attempts[t], "failed", r)
        all == <<ICONIFY_BASE>> \o ICONIFY_BACKUPS
        bad == hosts[t][k]
        kept == SelectSeq(all, LAMBDA h : h # bad) \o <<bad>>
    IN  /\ last_exc' = [last_exc EXCEPT ![t] = PyExc(exc)]
        /\ ICONIFY_BASE' = Head(kept)
        /\ ICONIFY_BACKUPS' = Tail(kept)
        /\ IF k < Len(hosts[t])
           THEN /\ attempts' = [attempts EXCEPT
                                  ![t] = Append(log, Get(hosts[t][k + 1], req[t].path))]
                /\ UNCHANGED <<pc, data, out>>
           ELSE /\ attempts' = [attempts EXCEPT ![t] = log]
                /\ RequesterReturns(t, PyNone)
        /\ UNCHANGED <<op, args, req, hosts>>

\* Lines 48-52: the try body raised `exc`.  Caught: remember it and go on with
\* the next host of the list, or return None after the last one.  Not caught:
\* it leaves _request_iconify and the handler.
OnFailure(t, r, exc) ==
    LET k == Len(attempts[t])
        log == Settle(attempts[t], "failed", r)
    IN  IF ~Caught(exc)
        THEN /\ pc' = [pc EXCEPT ![t] = "raised"]
             /\ attempts' = [attempts EXCEPT ![t] = log]
             /\ UNCHANGED <<globals, op, args, req, hosts, last_exc, data, out>>
        ELSE /\ last_exc' = [last_exc EXCEPT ![t] = PyExc(exc)]
             /\ IF k < Len(hosts[t])
                THEN /\ attempts' = [attempts EXCEPT
                                       ![t] = Append(log, Get(hosts[t][k + 1], req[t].path))]
                     /\ UNCHANGED <<pc, data, out>>
                ELSE /\ attempts' = [attempts EXCEPT ![t] = log]
                     /\ RequesterReturns(t, PyNone)
             /\ UNCHANGED <<globals, op, args, req, hosts>>

\* The GET in flight ends: lines 45-50 for one host.
Response(t, wide) ==
    /\ pc[t] = "awaiting"
    /\ \E r \in Responses(req[t].expect_json, wide) :
          LET res == TryHost(r, req[t].expect_json)
          IN  IF res.ok THEN OnSuccess(t, r, res.value) ELSE OnFailure(t, r, res.exc)

\* The caller takes the result (or the exception); the task's frame is gone and
\* the tool can be invoked again.
Collect(t) ==
    /\ pc[t] \in {"done", "raised"}
    /\ pc' = [pc EXCEPT ![t] = "idle"]
    /\ op' = [op EXCEPT ![t] = "none"]
    /\ args' = [args EXCEPT ![t] = Unset]
    /\ req' = [req EXCEPT ![t] = Unset]
    /\ hosts' = [hosts EXCEPT ![t] = <<>>]
    /\ attempts' = [attempts EXCEPT ![t] = <<>>]
    /\ last_exc' = [last_exc EXCEPT ![t] = PyNone]
    /\ data' = [data EXCEPT ![t] = Unset]
    /\ out' = [out EXCEPT ![t] = Unset]
    /\ UNCHANGED globals

\* One step of task t, its inputs drawn from the wide or the narrow sets.
Step(t, wide) ==
    \/ search_icons(t, wide)
    \/ get_svg(t, wide)
    \/ get_icon_data(t, wide)
    \/ list_collections(t, wide)
    \/ list_icons_in_collection(t, wide)
    \/ Response(t, wide)
    \/ Collect(t)

\* One invocation at a time, over the wide input sets.
Next == Step(1, TRUE)

Spec == Init /\ [][Next]_vars

\* NumTasks invocations in flight together, over the narrow input sets.
NextConc == \E t \in Tasks : Step(t, FALSE)

SpecConc == Init /\ [][NextConc]_vars

\* =============================================================== claims
\* The fixed order of the hosts: primary, first backup, second backup.
FixedOrder == <<BASE_URL, BACKUP_URLS[1], BACKUP_URLS[2]>>

\* The task's handler has called _request_iconify (it is in it, or it returned).
InRequester(t) == attempts[t] # <<>>

\* An upstream answer on which an attempt succeeds: a 2xx status and, when JSON
\* is expected, a body that parses.
Succeeds(r, expect_json) ==
    /\ r.kind = "http"
    /\ r.status \in 200..299
    /\ expect_json => Json(r.body).ok

\* C1: within one call of _request_iconify the hosts are attempted one after
\* the other in the order primary, first backup, second backup: the k-th GET
\* goes to the k-th host (so no host twice, at most three GETs), every GET but
\* the latest has been seen to fail (so host k+1 only after host k failed, and
\* none after a success), and the call returns after 1 to 3 GETs, the last of
\* which either succeeded or was the failure of the third host.
C1_SequentialFallback ==
    \A t \in Tasks :
        LET log == attempts[t]
            n == Len(log)
        IN  /\ n <= 3
            /\ \A k \in 1..n : log[k].host = FixedOrder[k]
            /\ \A k \in 1..(n - 1) : log[k].result = "failed"
            /\ pc[t] = "awaiting" => n >= 1 /\ log[n].result = "pending"
            /\ n >= 1 /\ log[n].result = "failed" => n = 3 /\ pc[t] = "done"
            /\ n >= 1 /\ log[n].result = "ok" => pc[t] = "done"
            /\ pc[t] = "done" /\ data[t] # Unset =>
                  n \in 1..3 /\ log[n].result \in {"ok", "failed"}

\* C1 witness: a call that returned after the primary and the first backup
\* failed and the second backup succeeded.
C1_Witness ==
    \E t \in Tasks :
        /\ pc[t] = "done"
        /\ Len(attempts[t]) = 3
        /\ attempts[t][1].result = "failed"
        /\ attempts[t][2].result = "failed"
        /\ attempts[t][3].result = "ok"
        /\ attempts[t][3].host = BACKUP_URLS[2]

\* C2: a failure never leaves _request_iconify as an exception and never ends
\* the call while a host is left: when the attempts on all three hosts failed,
\* whatever the failures were, the call returned None.
C2_AllFailReturnsNone ==
    \A t \in Tasks :
        LET log == attempts[t]
            n == Len(log)
        IN  /\ pc[t] # "raised"
            /\ (n >= 1 /\ \A k \in 1..n : log[k].result = "failed") =>
                  n = 3 /\ pc[t] = "done" /\ data[t] = PyNone
            /\ \A k \in 1..n :
                  log[k].resp # Unset /\ ~Succeeds(log[k].resp, req[t].expect_json) =>
                     log[k].result = "failed" /\ (k < 3 => n > k)

\* C2 witness: the three hosts failed in three different ways (a connection
\* error, a 404, a 200 whose body is not JSON) and the call returned None.
C2_Witness ==
    \E t \in Tasks :
        /\ pc[t] = "done"
        /\ data[t] = PyNone
        /\ Len(attempts[t]) = 3
        /\ attempts[t][1].resp = [kind |-> "ConnectError"]
        /\ attempts[t][2].resp = [kind |-> "http", status |-> 404, body |-> <<>>]
        /\ attempts[t][3].resp = [kind |-> "http", status |-> 200, body |-> B_html]

\* C3: when the answer of some host succeeds, _request_iconify returns the
\* payload of the first such host in list order: its body parsed as JSON when
\* JSON is expected, its body as text otherwise.
C3_FirstSuccessPayload ==
    \A t \in Tasks :
        LET log == attempts[t]
            ej == req[t].expect_json
            good == {k \in 1..Len(log) : log[k].resp # Unset /\ Succeeds(log[k].resp, ej)}
        IN  good # {} =>
               LET first == CHOOSE k \in good : \A j \in good : k <= j
               IN  /\ pc[t] = "done"
                   /\ log[first].host = FixedOrder[first]
                   /\ data[t] = IF ej THEN Json(log[first].resp.body).value
                                      ELSE PyStr(log[first].resp.body)
                   /\ \A k \in 1..Len(log) : k <= first

\* C3 witness: the primary failed, the first backup answered with the search
\* result, and that parsed result is what the call returned.
C3_Witness ==
    \E t \in Tasks :
        /\ pc[t] = "done"
        /\ Len(attempts[t]) = 2
        /\ attempts[t][1].result = "failed"
        /\ attempts[t][2].host = BACKUP_URLS[1]
        /\ attempts[t][2].resp = [kind |-> "http", status |-> 200, body |-> B_icons_one]
        /\ data[t] = PyDict([icons |-> PyList(<<PyStr(S_mdi_home)>>), total |-> PyInt(1)])

\* C4: get_svg and get_icon_data called with a malformed icon reference (no
\* ':', or nothing before or nothing after the first ':') return the validation
\* message, raise nothing and issue no GET; called with a well-formed one they
\* do not return a validation message and request the path built from the
\* prefix and the name (/{prefix}/{name}.svg; /{prefix}.json with icons=name).
C4_IconValidation ==
    \A t \in Tasks :
        op[t] \in {"get_svg", "get_icon_data"} =>
            LET icon == args[t].icon.val
                colons == {k \in 1..Len(icon) : icon[k] = ":"}
                c == CHOOSE k \in colons : \A j \in colons : k <= j
                wellformed == colons # {} /\ c > 1 /\ c < Len(icon)
                prefix == SubSeq(icon, 1, c - 1)
                name == SubSeq(icon, c + 1, Len(icon))
                path == IF op[t] = "get_svg"
                        THEN <<"/">> \o prefix \o <<"/">> \o name \o <<".", "s", "v", "g">>
                        ELSE <<"/">> \o prefix \o <<".", "j", "s", "o", "n">>
            IN  /\ pc[t] # "raised"
                /\ ~wellformed =>
                      /\ pc[t] = "done"
                      /\ out[t] = PyStr(IF colons = {} THEN MSG_FORMAT ELSE MSG_INVALID)
                      /\ attempts[t] = <<>>
                      /\ req[t] = Unset
                /\ wellformed =>
                      /\ out[t] \notin {PyStr(MSG_FORMAT), PyStr(MSG_INVALID)}
                      /\ attempts[t] # <<>>
                      /\ req[t].path = path
                      /\ \A k \in 1..Len(attempts[t]) : attempts[t][k].path = path
                      /\ op[t] = "get_icon_data" => req[t].params = [icons |-> PyStr(name)]

\* C4 witness: get_svg called with "m:" (nothing after the ':') has returned
\* the validation message without a GET.
C4_Witness ==
    \E t \in Tasks :
        /\ op[t] = "get_svg"
        /\ args[t].icon = PyStr(<<"m", ":">>)
        /\ pc[t] = "done"
        /\ out[t] = PyStr(MSG_INVALID)
        /\ attempts[t] = <<>>

\* C5: search_icons returns the upstream response unchanged exactly when that
\* response has an "icons" key, an empty icons list included; when the
\* requester returned None or a response without the key it returns the
\* message "Unable to fetch search results or no results found.".
C5_SearchPassThrough ==
    \A t \in Tasks :
        op[t] = "search_icons" /\ pc[t] = "done" =>
            LET last == attempts[t][Len(attempts[t])]
                upstream == IF last.result = "ok" THEN Json(last.resp.body).value ELSE PyNone
                haskey == upstream.type = "dict" /\ "icons" \in DOMAIN upstream.val
            IN  /\ data[t] = upstream
                /\ haskey => out[t] = upstream
                /\ ~haskey => out[t] = PyStr(MSG_SEARCH)
                /\ (out[t] = upstream) <=> haskey

\* C5 witness: the upstream answered {"icons": []} and search_icons returned it.
C5_Witness ==
    \E t \in Tasks :
        /\ op[t] = "search_icons"
        /\ pc[t] = "done"
        /\ attempts[t][Len(attempts[t])].resp.body = B_icons_empty
        /\ out[t] = PyDict([icons |-> PyList(<<>>)])

\* C6: every search request carries limit = 64 when the requested limit is None
\* and else the requested limit clamped into [32, 999], and start = max(0,
\* requested start).
C6_Pagination ==
    \A t \in Tasks :
        op[t] = "search_icons" /\ InRequester(t) =>
            LET l == args[t].limit
                s == args[t].start.val
                p == req[t].params
            IN  /\ p["limit"] = PyInt(IF l = PyNone THEN 64
                                      ELSE IF l.val < 32 THEN 32
                                      ELSE IF l.val > 999 THEN 999
                                      ELSE l.val)
                /\ p["limit"].val >= 32 /\ p["limit"].val <= 999
                /\ p["start"] = PyInt(IF s < 0 THEN 0 ELSE s)

\* C6 witness: a search with limit 10 and start -5 is in flight with limit 32
\* and start 0.
C6_Witness ==
    \E t \in Tasks :
        /\ op[t] = "search_icons"
        /\ pc[t] = "awaiting"
        /\ args[t].limit = PyInt(10)
        /\ args[t].start = PyInt(-5)
        /\ req[t].params["limit"] = PyInt(32)
        /\ req[t].params["start"] = PyInt(0)

\* C7: get_svg, get_icon_data, list_collections and list_icons_in_collection,
\* once the requester has returned, return their fixed message when it returned
\* None or an empty payload (an empty text, an empty object) and return its
\* payload unchanged otherwise; they never raise.
C7_FixedMessages ==
    \A t \in Tasks :
        /\ pc[t] # "raised"
        /\ (/\ op[t] \in {"get_svg", "get_icon_data", "list_collections",
                          "list_icons_in_collection"}
            /\ pc[t] = "done"
            /\ InRequester(t)) =>
              LET msg == CASE op[t] = "get_svg" -> MSG_SVG
                           [] op[t] = "get_icon_data" -> MSG_ICON_DATA
                           [] op[t] = "list_collections" -> MSG_COLLECTIONS
                           [] op[t] = "list_icons_in_collection" ->
                                 MSG_COLLECTION_PRE \o args[t].prefix.val \o <<"'", ".">>
              IN  IF data[t] \in {PyNone, PyStr(<<>>), PyDict(EmptyDict)}
                  THEN out[t] = PyStr(msg)
                  ELSE out[t] = data[t]

\* C7 witness: get_icon_data("mdi:home") with the three hosts down has returned
\* "Unable to fetch icon data.".
C7_Witness ==
    \E t \in Tasks :
        /\ op[t] = "get_icon_data"
        /\ args[t].icon = PyStr(S_mdi_home)
        /\ pc[t] = "done"
        /\ Len(attempts[t]) = 3
        /\ \A k \in 1..3 : attempts[t][k].result = "failed"
        /\ out[t] = PyStr(MSG_ICON_DATA)

\* C9 as stated, for a style that is None, "fill" or "stroke": style and palette
\* are never query parameters of their own, and the `query` parameter is the
\* query text, then " style=<style>" when a style is given, then
\* " palette=true" or " palette=false" when palette is given.
C9_AsStated ==
    \A t \in Tasks :
        (/\ op[t] = "search_icons"
         /\ InRequester(t)
         /\ args[t].style \in {PyNone, PyStr(S_fill), PyStr(S_stroke)}) =>
            LET a == args[t]
                p == req[t].params
            IN  /\ "style" \notin DOMAIN p
                /\ "palette" \notin DOMAIN p
                /\ p["query"] =
                      PyStr(a.query.val
                            \o (IF a.style # PyNone
                                THEN <<" ", "s", "t", "y", "l", "e", "=">> \o a.style.val
                                ELSE <<>>)
                            \o (IF a.palette = PyNone THEN <<>>
                                ELSE IF a.palette.val
                                THEN <<" ", "p", "a", "l", "e", "t", "t", "e", "=", "t", "r", "u", "e">>
                                ELSE <<" ", "p", "a", "l", "e", "t", "t", "e", "=", "f", "a", "l", "s", "e">>))

\* C9 amended: style and palette are never query parameters of their own, and
\* the `query` parameter is the query text without its leading and trailing
\* whitespace, then " style=<style>" when style is "fill" or "stroke" (any
\* other style is dropped), then " palette=true" or " palette=false" when
\* palette is given.
C9_QueryKeywords ==
    \A t \in Tasks :
        op[t] = "search_icons" /\ InRequester(t) =>
            LET a == args[t]
                p == req[t].params
                q == a.query.val
                inner == {k \in 1..Len(q) : q[k] # " "}
                lo == CHOOSE k \in inner : \A j \in inner : k <= j
                hi == CHOOSE k \in inner : \A j \in inner : k >= j
                text == IF inner = {} THEN <<>> ELSE SubSeq(q, lo, hi)
            IN  /\ "style" \notin DOMAIN p
                /\ "palette" \notin DOMAIN p
                /\ p["query"] =
                      PyStr(text
                            \o (IF a.style = PyStr(<<"f", "i", "l", "l">>)
                                   \/ a.style = PyStr(<<"s", "t", "r", "o", "k", "e">>)
                                THEN <<" ", "s", "t", "y", "l", "e", "=">> \o a.style.val
                                ELSE <<>>)
                            \o (IF a.palette = PyNone THEN <<>>
                                ELSE IF a.palette.val
                                THEN <<" ", "p", "a", "l", "e", "t", "t", "e", "=", "t", "r", "u", "e">>
                                ELSE <<" ", "p", "a", "l", "e", "t", "t", "e", "=", "f", "a", "l", "s", "e">>))

\* C9 witness: query "home", style "stroke", palette False is in flight as
\* "home style=stroke palette=false".
C9_Witness ==
    \E t \in Tasks :
        /\ op[t] = "search_icons"
        /\ InRequester(t)
        /\ args[t].query = PyStr(<<"h", "o", "m", "e">>)
        /\ args[t].style = PyStr(S_stroke)
        /\ args[t].palette = PyBool(FALSE)
        /\ req[t].params["query"] =
              PyStr(<<"h", "o", "m", "e", " ", "s", "t", "y", "l", "e", "=", "s", "t", "r",
                      "o", "k", "e", " ", "p", "a", "l", "e", "t", "t", "e", "=", "f", "a",
                      "l", "s", "e">>)

\* C10: _request_iconify returns None only when the three hosts were attempted
\* and failed; when a host's request succeeded the value returned is not None.
C10_NoneMeansAllFailed ==
    \A t \in Tasks :
        pc[t] = "done" /\ InRequester(t) /\ data[t] = PyNone =>
            /\ Len(attempts[t]) = 3
            /\ \A k \in 1..3 : attempts[t][k].result = "failed"

\* C8: invocations in flight together do not interfere.  Under every
\* interleaving of their GETs, the module's host list is what it was at import;
\* every task asks the hosts in the fixed order, each GET for its own path; a
\* task that has returned has asked as many hosts and returns the same value as
\* its handler run alone against the answers it got; and two tasks that ran the
\* same handler with the same arguments and got the same answers returned the
\* same value.
C8_NoInterference ==
    /\ ICONIFY_BASE = BASE_URL
    /\ ICONIFY_BACKUPS = BACKUP_URLS
    /\ \A t \in Tasks :
          /\ pc[t] # "raised"
          /\ \A k \in 1..Len(attempts[t]) :
                /\ attempts[t][k].host = FixedOrder[k]
                /\ attempts[t][k].path = req[t].path
          /\ pc[t] = "done" =>
                LET alone == HandlerAlone(op[t], args[t],
                                          [k \in 1..Len(attempts[t]) |-> attempts[t][k].resp])
                IN  /\ ~alone.raised
                    /\ alone.asked = Len(attempts[t])
                    /\ alone.value = out[t]
    /\ \A t, u \in Tasks :
          (/\ pc[t] = "done" /\ pc[u] = "done"
           /\ op[t] = op[u] /\ args[t] = args[u]
           /\ Len(attempts[t]) = Len(attempts[u])
           /\ \A k \in 1..Len(attempts[t]) : attempts[t][k].resp = attempts[u][k].resp)
          => out[t] = out[u]

\* C8 witness: two invocations of search_icons with the same arguments were
\* in flight together and got different answers: one has returned the message
\* after three failures while the other, whose primary failed, is waiting for
\* the first backup.
C8_Witness ==
    \E t, u \in Tasks :
        /\ t # u
        /\ op[t] = "search_icons" /\ op[u] = "search_icons"
        /\ args[t] = args[u]
        /\ pc[t] = "done"
        /\ Len(attempts[t]) = 3
        /\ out[t] = PyStr(MSG_SEARCH)
        /\ pc[u] = "awaiting"
        /\ Len(attempts[u]) = 2
====
